---- MODULE Spec2Model ----
(***************************************************************************)
(* Model of the SecuredLine wrapper (src/src/index.ts): the async methods  *)
(* borrow, getOpenPositionIds, getPosition, getPositionLiquidity and the   *)
(* pass-through views, run against a remote ledger that holds the credit   *)
(* positions, a pool of submitted transactions and their receipts.         *)
(*                                                                         *)
(* The remote contract is not part of the repository: its operations       *)
(* (contract_*, EnvWithdraw, EnvClose, Mine) follow the specification's    *)
(* testable properties and the repository's tests.  Each family of         *)
(* methods is checked under its own specification (SpecBorrow, SpecIds,    *)
(* SpecReadCalls, SpecRecipient, SpecDrawdown), all over the same          *)
(* variables and the same remote writes; SpecGateway starts before         *)
(* the constructor has run and follows one instance through calls of all   *)
(* its methods.  SpecSigner constructs the instance with any valid key,    *)
(* SpecBorrow and SpecReplace let the transactions of concurrent calls     *)
(* take the same nonce, SpecCompletion follows borrow calls to their end   *)
(* under fairness of the receipt wait.  The instance's two endpoints       *)
(* serve the same ledger unless rpcUrl is the local fork's                 *)
(* (SpecCompletion); every call keeps the requests it has sent in its      *)
(* `sent`.                                                                 *)
(***************************************************************************)
EXTENDS Integers, Sequences, FiniteSets, TLC

\* ------------------------------------------------------------------ bounds
MaxBorrowCalls == 2
MaxIdsCalls == 1
MaxAmount == 1
MaxEnvWrites == 1
MaxReadCalls == 2
MaxInstanceCalls == 2
MaxBorrowOps == 3

\* ------------------------------------------------------------- value sets
PositionRefs == {1, 2}
Amounts == 1..MaxAmount
BorrowCalls == 1..MaxBorrowCalls
IdsCalls == 1..MaxIdsCalls
ReadCalls == 1..MaxReadCalls
WalletAddress == "signer"
Recipients == {"none", "other"}

NoHash == 0
NoError == "none"

\* ------------------------------------------------ constructor arguments
LineAddress == "0xLine"
Addresses == {LineAddress}
PrivateKeys == {"key", "malformed"}
ChainIds == {"base", "nochain"}
BaseRpc == "https://mainnet.base.org"
AlchemyRpc == "https://base-mainnet.g.alchemy.com/v2/KEY"
RpcUrls == {BaseRpc, AlchemyRpc}

\* The endpoint of a local fork (anvil), as the tests run one; it serves a
\* ledger of its own, the two others serve the chain's.
ForkRpc == "http://127.0.0.1:8545"
Ledger(url) == IF url = ForkRpc THEN "fork" ELSE "base"

\* import * as Chains from "viem/chains": the chain profiles by key; a key
\* that is not exported reads as undefined.
Chains == [k \in {"base"} |-> [rpcUrls |-> [default |-> [http |-> <<BaseRpc>>]]]]

\* privateKeyToAccount(privateKey): the account of a well-formed key, with
\* the address that belongs to the key; it throws on any other string.
ValidKeys == {"key", "key2"}
privateKeyToAccount(privateKey) ==
    [address |-> IF privateKey = "key" THEN WalletAddress ELSE "signer2"]

\* ============================================================ constructor
NoWalletClient == [account |-> "none", transport |-> "none"]
NoPublicClient == [transport |-> "none"]
NoContract == [address |-> "none", wallet |-> NoWalletClient, public |-> NoPublicClient]
NoParams == [address |-> "none", privateKey |-> "none", chainId |-> "none", rpcUrl |-> "none"]
NoGateway ==
    [state |-> "none", params |-> NoParams,
     contract |-> NoContract, walletAddress |-> "none",
     walletClient |-> NoWalletClient, publicClient |-> NoPublicClient, error |-> NoError]

\* The constructor's argument object.
Params(address, privateKey, chainId, rpcUrl) ==
    [address |-> address, privateKey |-> privateKey, chainId |-> chainId, rpcUrl |-> rpcUrl]

\* new SecuredLine(params) threw: there is no instance.
Thrown(params, error) == [NoGateway EXCEPT !.state = "failed", !.params = params, !.error = error]

\* Mutant: an unknown chain is skipped over (chain?.rpcUrls) and an
\* instance without a write endpoint comes back.
SecuredLine_optionalChain(address, privateKey, chainId, rpcUrl) ==
    IF privateKey \notin ValidKeys
    THEN Thrown(Params(address, privateKey, chainId, rpcUrl), "PrivateKeyError")
    ELSE LET account == privateKeyToAccount(privateKey)
             walletClient == [account |-> account.address,
                              transport |-> IF chainId \in DOMAIN Chains
                                            THEN Chains[chainId].rpcUrls.default.http[1]
                                            ELSE "none"]
             publicClient == [transport |-> rpcUrl]
         IN [state |-> "ready",
             params |-> Params(address, privateKey, chainId, rpcUrl),
             contract |-> [address |-> address, wallet |-> walletClient,
                           public |-> publicClient],
             walletAddress |-> account.address,
             walletClient |-> walletClient,
             publicClient |-> publicClient,
             error |-> NoError]

\* new SecuredLine({address, privateKey, chainId, rpcUrl}): the instance, or
\* the failure of the first statement that throws.  privateKeyToAccount
\* runs before chain.rpcUrls is read; the wallet client's transport is the
\* chain's default endpoint, the public client's is rpcUrl.
SecuredLine(address, privateKey, chainId, rpcUrl) ==
    IF privateKey \notin ValidKeys
    THEN Thrown(Params(address, privateKey, chainId, rpcUrl), "PrivateKeyError")
    ELSE IF chainId \notin DOMAIN Chains
    THEN Thrown(Params(address, privateKey, chainId, rpcUrl), "TypeError")
    ELSE LET chain == Chains[chainId]
             account == privateKeyToAccount(privateKey)
             walletClient == [account |-> account.address,
                              transport |-> chain.rpcUrls.default.http[1]]
             publicClient == [transport |-> rpcUrl]
         IN [state |-> "ready",
             params |-> Params(address, privateKey, chainId, rpcUrl),
             contract |-> [address |-> address, wallet |-> walletClient,
                           public |-> publicClient],
             walletAddress |-> account.address,
             walletClient |-> walletClient,
             publicClient |-> publicClient,
             error |-> NoError]

VARIABLES
    credits,      \* remote: position reference -> credit position
    ids,          \* remote: the array behind ids(i); counts()[0] is its length
    txs,          \* remote: hash -> transaction accepted by eth_sendRawTransaction
    pending,      \* remote: hashes accepted and not yet mined
    receipts,     \* remote: hash -> status of the mined transaction
    envWrites,    \* number of writes other accounts have made
    bcall,        \* borrow calls: position in SecuredLine.borrow and its locals
    icall,        \* getOpenPositionIds calls: position and locals
    gateway,      \* the SecuredLine instance: the fields the constructor assigns
    rcall         \* simple read calls in flight: position and locals

vars == <<credits, ids, txs, pending, receipts, envWrites, bcall, icall,
          gateway, rcall>>

\* ===================================================== the remote contract
NoCredit == [deposit |-> 0, principal |-> 0, interestRepaid |-> 0, isOpen |-> FALSE]

\* getCreditPosition(tokenId): the stored struct.
contract_getCreditPosition(cr, id) == cr[id]

\* available(id): (deposit - principal, interestRepaid).
contract_available(cr, id) == <<cr[id].deposit - cr[id].principal, cr[id].interestRepaid>>

\* counts(): first component is the number of open positions.
contract_counts(list) == <<Len(list), Len(list)>>

\* borrow(id, amount, to): the revert reason, or NoError when it executes.
contract_borrow_revert(cr, id, amount) ==
    IF ~cr[id].isOpen THEN "PositionIsClosed"
    ELSE IF amount > cr[id].deposit - cr[id].principal THEN "NoLiquidity"
    ELSE NoError

\* borrow(id, amount, to): the credit table after a successful execution.
contract_borrow_apply(cr, id, amount) ==
    [cr EXCEPT ![id].principal = @ + amount]

RECURSIVE RemoveId(_, _)
RemoveId(list, id) ==
    IF list = <<>> THEN <<>>
    ELSE IF Head(list) = id THEN RemoveId(Tail(list), id)
    ELSE <<Head(list)>> \o RemoveId(Tail(list), id)

\* ================================================================== Init
InitCredits ==
    { [p \in PositionRefs |->
         IF p = 1 /\ o1 THEN [deposit |-> 2, principal |-> 0, interestRepaid |-> 1, isOpen |-> TRUE]
         ELSE IF p = 2 /\ o2 THEN [deposit |-> 1, principal |-> 0, interestRepaid |-> 0, isOpen |-> TRUE]
         ELSE NoCredit] :
      o1 \in BOOLEAN, o2 \in BOOLEAN }

OpenList(cr) ==
    (IF cr[1].isOpen THEN <<1>> ELSE <<>>) \o (IF cr[2].isOpen THEN <<2>> ELSE <<>>)

IdleBorrow ==
    [pc |-> "idle", positionId |-> 1, amount |-> 1, to |-> "none",
     txnHash |-> NoHash, result |-> NoHash, error |-> NoError,
     prePrincipal |-> 0, preAvailable |-> 0, preOpen |-> FALSE,
     interfered |-> FALSE, submissions |-> 0, sent |-> <<>>]

IdleIds ==
    [pc |-> "idle", openPositionCount |-> 0, promises |-> <<>>, completions |-> <<>>,
     result |-> <<>>, error |-> NoError, listChanged |-> FALSE, sent |-> <<>>]

\* What the node answers to a read of one position, and on which ledger state.
NoAnswer == [position |-> NoCredit, pair |-> <<0, 0>>, version |-> 0]

\* A simple read call as it starts: op(id), its request sent.
NewRead(op, id, request) ==
    [pc |-> "querying", op |-> op, id |-> id,
     position |-> NoCredit, pair |-> <<0, 0>>,
     availableAssets |-> 0, claimableInterest |-> 0, error |-> NoError,
     sent |-> <<request>>, response |-> NoAnswer]

\* The ledger and the calls before any method has been called.
InitLedger ==
    /\ credits \in InitCredits
    /\ ids = OpenList(credits)
    /\ txs = <<>>
    /\ pending = {}
    /\ receipts = <<>>
    /\ envWrites = 0
    /\ bcall = [c \in BorrowCalls |-> IdleBorrow]
    /\ icall = [c \in IdsCalls |-> IdleIds]
    /\ rcall = <<>>

\* An instance constructed the way the tests construct it: the endpoint
\* passed as rpcUrl is the default endpoint of the chain.
Init ==
    /\ InitLedger
    /\ gateway = SecuredLine(LineAddress, "key", "base", BaseRpc)

\* No instance has been constructed yet.
InitGateway ==
    /\ InitLedger
    /\ gateway = NoGateway

\* ============================================================== requests
\* A request as it leaves through a client: the function and its argument,
\* the endpoint of the client's transport, the contract address it names.
Send(fn, arg, client, address) ==
    [fn |-> fn, arg |-> arg, url |-> client.transport, address |-> address,
     outcome |-> "pending"]

\* this.contract.read.fn([arg]) goes through the contract's public client.
ContractRead(fn, arg) == Send(fn, arg, gateway.contract.public, gateway.contract.address)

\* this.contract.write.fn([...]) goes through the contract's wallet client.
ContractWrite(fn, arg) == Send(fn, arg, gateway.contract.wallet, gateway.contract.address)

\* this.publicClient.waitForTransactionReceipt({hash}).
ReceiptWait(hash) == Send("waitForTransactionReceipt", hash, gateway.publicClient, "none")

\* The request at position k of a call's requests gets its outcome.
SettleAt(sent, k, outcome) == [sent EXCEPT ![k].outcome = outcome]

\* The request a call awaits, its last, gets its outcome.
Settle(sent, outcome) == SettleAt(sent, Len(sent), outcome)

\* ============================================ writes by other accounts
\* Calls in flight on position id other than `except` see a foreign write.
MarkInterfered(bc, id, except) ==
    [c \in BorrowCalls |->
        IF c # except /\ bc[c].pc # "idle" /\ bc[c].positionId = id
        THEN [bc[c] EXCEPT !.interfered = TRUE] ELSE bc[c]]

MarkListChanged(ic) ==
    [c \in IdsCalls |->
        IF ic[c].pc # "idle" THEN [ic[c] EXCEPT !.listChanged = TRUE] ELSE ic[c]]

\* withdraw(tokenId, amount) by the lender: takes undrawn deposit out.
EnvWithdraw(id, k) ==
    /\ envWrites < MaxEnvWrites
    /\ credits[id].isOpen
    /\ k <= credits[id].deposit - credits[id].principal
    /\ credits' = [credits EXCEPT ![id].deposit = @ - k]
    /\ bcall' = MarkInterfered(bcall, id, 0)
    /\ envWrites' = envWrites + 1
    /\ UNCHANGED <<ids, txs, pending, receipts, icall, gateway, rcall>>

\* close(id): a position without principal is closed and leaves the id list.
EnvClose(id) ==
    /\ envWrites < MaxEnvWrites
    /\ credits[id].isOpen
    /\ credits[id].principal = 0
    /\ credits' = [credits EXCEPT ![id] = NoCredit]
    /\ ids' = RemoveId(ids, id)
    /\ bcall' = MarkInterfered(bcall, id, 0)
    /\ icall' = MarkListChanged(icall)
    /\ envWrites' = envWrites + 1
    /\ UNCHANGED <<txs, pending, receipts, gateway, rcall>>

\* ================================================= the chain mines a block
Lowest(S) == CHOOSE h \in S : \A g \in S : txs[h].nonce <= txs[g].nonce

\* The pending transaction with the lowest nonce is executed and its receipt
\* recorded: status success with the draw-down applied, or status reverted.
Mine ==
    /\ pending # {}
    /\ LET h == Lowest(pending)
           tx == txs[h]
           reason == contract_borrow_revert(credits, tx.id, tx.amount)
       IN /\ pending' = pending \ {h}
          /\ IF reason = NoError
             THEN /\ credits' = contract_borrow_apply(credits, tx.id, tx.amount)
                  /\ receipts' = (h :> "success") @@ receipts
                  /\ bcall' = MarkInterfered(bcall, tx.id, tx.call)
             ELSE /\ receipts' = (h :> "reverted") @@ receipts
                  /\ UNCHANGED <<credits, bcall>>
    /\ UNCHANGED <<ids, txs, envWrites, icall, gateway, rcall>>

\* ========================================================= SecuredLine.borrow
\* borrow({positionId, amount, to}) is called; nothing has been sent yet.
BorrowStart(c, positionId, amount, to) ==
    /\ gateway.state = "ready"
    /\ bcall[c].pc = "idle"
    /\ IF c = 1 THEN TRUE ELSE bcall[c - 1].pc # "idle"
    /\ bcall' = [bcall EXCEPT ![c] =
          [@ EXCEPT !.pc = "submitting",
                    !.sent = <<ContractWrite("borrow", positionId)>>, !.positionId = positionId,
                    !.amount = amount, !.to = to,
                    !.prePrincipal = credits[positionId].principal,
                    !.preAvailable = contract_available(credits, positionId)[1],
                    !.preOpen = credits[positionId].isOpen]]
    /\ UNCHANGED <<credits, ids, txs, pending, receipts, envWrites, icall, gateway, rcall>>

\* Mutant: the recipient is always the wallet address.
Recipient_ignored(to) == gateway.walletAddress

\* The recipient argument: `to ?? this.walletAddress`.
Recipient(to) == IF to = "none" THEN gateway.walletAddress ELSE to

\* Mutant: the first two arguments are passed the wrong way round.
BorrowTx_swapped(c, b) ==
    [call |-> c, id |-> b.amount, amount |-> b.positionId,
     to |-> Recipient(b.to), from |-> gateway.contract.wallet.account]

\* Mutant: the transaction is sent from the recipient's account.
BorrowTx_fromRecipient(c, b) ==
    [call |-> c, id |-> b.positionId, amount |-> b.amount,
     to |-> Recipient(b.to), from |-> Recipient(b.to)]

\* The transaction contract.write.borrow([positionId, amount, to ?? walletAddress]) sends.
BorrowTx(c, b) ==
    [call |-> c, id |-> b.positionId, amount |-> b.amount,
     to |-> Recipient(b.to), from |-> gateway.contract.wallet.account]

\* eth_getTransactionCount(account, "pending"): the nonce the signer's next
\* transaction gets, one more than the nonces its transactions have used.
PendingNonce == Cardinality({txs[h].nonce : h \in DOMAIN txs}) + 1

\* The signed transaction as the pool holds it: the call's transaction with
\* the nonce it was signed with.
Pooled(tx, nonce) ==
    [call |-> tx.call, id |-> tx.id, amount |-> tx.amount, to |-> tx.to,
     from |-> tx.from, nonce |-> nonce]

\* The node's simulation of a transaction against its current state
\* (eth_estimateGas while the request is prepared): the revert reason or NoError.
Simulate(tx) == contract_borrow_revert(credits, tx.id, tx.amount)

\* Mutant: after submitting, borrow replaces the public client by one on the
\* wallet client's endpoint to wait for the receipt there.
BorrowSubmit_rebind(c) ==
    /\ bcall[c].pc = "submitting"
    /\ Simulate(BorrowTx(c, bcall[c])) = NoError
    /\ txs' = Append(txs, Pooled(BorrowTx(c, bcall[c]), PendingNonce))
    /\ pending' = pending \cup {Len(txs) + 1}
    /\ gateway' = [gateway EXCEPT !.publicClient = [transport |-> gateway.walletClient.transport]]
    /\ bcall' = [bcall EXCEPT ![c] =
          [@ EXCEPT !.pc = "waiting",
                    !.sent = Settle(@, "ok") \o <<ReceiptWait(Len(txs) + 1)>>,
                    !.txnHash = Len(txs) + 1,
                    !.submissions = @ + 1]]
    /\ UNCHANGED <<credits, ids, receipts, envWrites, icall, rcall>>

\* Mutant: the instance holds a lock: no call submits while another call's
\* transaction awaits its receipt.
BorrowSubmit_serialized(c) ==
    /\ bcall[c].pc = "submitting"
    /\ \A d \in BorrowCalls : bcall[d].pc # "waiting"
    /\ Simulate(BorrowTx(c, bcall[c])) = NoError
    /\ txs' = Append(txs, Pooled(BorrowTx(c, bcall[c]), PendingNonce))
    /\ pending' = pending \cup {Len(txs) + 1}
    /\ bcall' = [bcall EXCEPT ![c] =
          [@ EXCEPT !.pc = "waiting",
                    !.sent = Settle(@, "ok") \o <<ReceiptWait(Len(txs) + 1)>>,
                    !.txnHash = Len(txs) + 1,
                    !.submissions = @ + 1]]
    /\ UNCHANGED <<credits, ids, receipts, envWrites, icall, gateway, rcall>>

\* await contract.write.borrow(...): the node simulates the call while the
\* transaction is prepared; a call that does not revert is signed, accepted
\* into the pool and its hash returned to the caller.
BorrowSubmit(c) ==
    /\ bcall[c].pc = "submitting"
    /\ Simulate(BorrowTx(c, bcall[c])) = NoError
    /\ txs' = Append(txs, Pooled(BorrowTx(c, bcall[c]), PendingNonce))
    /\ pending' = pending \cup {Len(txs) + 1}
    /\ bcall' = [bcall EXCEPT ![c] =
          [@ EXCEPT !.pc = "waiting",
                    !.sent = Settle(@, "ok") \o <<ReceiptWait(Len(txs) + 1)>>, !.txnHash = Len(txs) + 1,
                    !.submissions = @ + 1]]
    /\ UNCHANGED <<credits, ids, receipts, envWrites, icall, gateway, rcall>>

\* Mutant: the rejection of the submission is caught and borrow returns.
BorrowSubmitRevert_swallow(c) ==
    /\ bcall[c].pc = "submitting"
    /\ Simulate(BorrowTx(c, bcall[c])) # NoError
    /\ bcall' = [bcall EXCEPT ![c] = [@ EXCEPT !.pc = "returned",
                    !.sent = Settle(@, "reverted")]]
    /\ UNCHANGED <<credits, ids, txs, pending, receipts, envWrites, icall, gateway, rcall>>

\* Mutant: the rejection is rethrown as a generic error without the reason.
BorrowSubmitRevert_generic(c) ==
    /\ bcall[c].pc = "submitting"
    /\ Simulate(BorrowTx(c, bcall[c])) # NoError
    /\ bcall' = [bcall EXCEPT ![c] = [@ EXCEPT !.pc = "failed",
                    !.sent = Settle(@, "reverted"), !.error = "Error"]]
    /\ UNCHANGED <<credits, ids, txs, pending, receipts, envWrites, icall, gateway, rcall>>

\* Mutant: the transaction is sent without the simulation's verdict being
\* awaited; the call still fails with the reason.
BorrowSubmitRevert_sent(c) ==
    /\ bcall[c].pc = "submitting"
    /\ Simulate(BorrowTx(c, bcall[c])) # NoError
    /\ txs' = Append(txs, Pooled(BorrowTx(c, bcall[c]), PendingNonce))
    /\ pending' = pending \cup {Len(txs) + 1}
    /\ bcall' = [bcall EXCEPT ![c] =
          [@ EXCEPT !.pc = "failed",
                    !.sent = Settle(@, "reverted"), !.error = Simulate(BorrowTx(c, bcall[c]))]]
    /\ UNCHANGED <<credits, ids, receipts, envWrites, icall, gateway, rcall>>

\* await contract.write.borrow(...) rejects with the revert reason the
\* simulation reports; nothing is sent.
BorrowSubmitRevert(c) ==
    /\ bcall[c].pc = "submitting"
    /\ Simulate(BorrowTx(c, bcall[c])) # NoError
    /\ bcall' = [bcall EXCEPT ![c] =
          [@ EXCEPT !.pc = "failed",
                    !.sent = Settle(@, "reverted"), !.error = Simulate(BorrowTx(c, bcall[c]))]]
    /\ UNCHANGED <<credits, ids, txs, pending, receipts, envWrites, icall, gateway, rcall>>

\* await contract.write.borrow(...) rejects because the request could not be
\* signed or did not reach the node; nothing is sent.
BorrowSubmitFail(c) ==
    /\ bcall[c].pc = "submitting"
    /\ bcall' = [bcall EXCEPT ![c] = [@ EXCEPT !.pc = "failed",
                    !.sent = Settle(@, "error"), !.error = "TransportError"]]
    /\ UNCHANGED <<credits, ids, txs, pending, receipts, envWrites, icall, gateway, rcall>>

\* The receipts the node behind url can report: those of the ledger that the
\* wallet client submitted to, when url serves that ledger, else none.
ReceiptsAt(url) ==
    IF Ledger(url) = Ledger(gateway.contract.wallet.transport)
    THEN DOMAIN receipts ELSE {}

\* waitForTransactionReceipt({hash}) at the node behind url: the receipt of
\* the transaction, or of the transaction that replaced it (same sender and
\* nonce) when it was replaced; the set is empty while there is none.
waitForTransactionReceipt(url, hash) ==
    {g \in ReceiptsAt(url) :
        txs[g].from = txs[hash].from /\ txs[g].nonce = txs[hash].nonce}

\* await publicClient.waitForTransactionReceipt({hash: txnHash}) resolves once
\* the receipt exists, whatever its status; borrow returns result.transactionHash.
BorrowReceipt(c) ==
    /\ bcall[c].pc = "waiting"
    /\ waitForTransactionReceipt(gateway.publicClient.transport, bcall[c].txnHash) # {}
    /\ LET result == CHOOSE g \in waitForTransactionReceipt(
                          gateway.publicClient.transport, bcall[c].txnHash) : TRUE
       IN bcall' = [bcall EXCEPT ![c] = [@ EXCEPT !.pc = "returned",
                       !.sent = Settle(@, "ok"), !.result = result]]
    /\ UNCHANGED <<credits, ids, txs, pending, receipts, envWrites, icall, gateway, rcall>>

\* Mutant: a failed receipt wait sends the call back to submit again.
BorrowReceiptFail_retry(c) ==
    /\ bcall[c].pc = "waiting"
    /\ bcall' = [bcall EXCEPT ![c] = [@ EXCEPT !.pc = "submitting",
                    !.sent = Settle(@, "error") \o <<ContractWrite("borrow", bcall[c].positionId)>>]]
    /\ UNCHANGED <<credits, ids, txs, pending, receipts, envWrites, icall, gateway, rcall>>

\* await publicClient.waitForTransactionReceipt(...) rejects (timeout or
\* transport failure); borrow rejects and the transaction stays where it is.
BorrowReceiptFail(c) ==
    /\ bcall[c].pc = "waiting"
    /\ bcall' = [bcall EXCEPT ![c] = [@ EXCEPT !.pc = "failed",
                    !.sent = Settle(@, "error"), !.error = "TransportError"]]
    /\ UNCHANGED <<credits, ids, txs, pending, receipts, envWrites, icall, gateway, rcall>>

\* Mutant: the receipt wait is given no time limit (timeout: 0).
BorrowReceiptTimeout_never(c) ==
    /\ bcall[c].pc = "waiting"
    /\ FALSE
    /\ bcall' = [bcall EXCEPT ![c] = [@ EXCEPT !.pc = "failed",
                    !.sent = Settle(@, "error"),
                    !.error = "WaitForTransactionReceiptTimeoutError"]]
    /\ UNCHANGED <<credits, ids, txs, pending, receipts, envWrites, icall, gateway, rcall>>

\* await publicClient.waitForTransactionReceipt({hash: txnHash}) is called
\* without a timeout option: the wait gives up after the client's default
\* time limit and rejects; borrow rejects with it.
BorrowReceiptTimeout(c) ==
    /\ bcall[c].pc = "waiting"
    /\ bcall' = [bcall EXCEPT ![c] = [@ EXCEPT !.pc = "failed",
                    !.sent = Settle(@, "error"),
                    !.error = "WaitForTransactionReceiptTimeoutError"]]
    /\ UNCHANGED <<credits, ids, txs, pending, receipts, envWrites, icall, gateway, rcall>>

\* await contract.write.borrow(...) resolves for a transaction signed with
\* the nonce of a pending transaction h of another call (both calls read the
\* signer's nonce before either had sent) and a higher fee: the pool keeps
\* the new transaction in place of h.
BorrowSubmitReplace(c, h) ==
    /\ bcall[c].pc = "submitting"
    /\ Simulate(BorrowTx(c, bcall[c])) = NoError
    /\ h \in pending
    /\ txs[h].call # c
    /\ txs' = Append(txs, Pooled(BorrowTx(c, bcall[c]), txs[h].nonce))
    /\ pending' = (pending \ {h}) \cup {Len(txs) + 1}
    /\ bcall' = [bcall EXCEPT ![c] =
          [@ EXCEPT !.pc = "waiting",
                    !.sent = Settle(@, "ok") \o <<ReceiptWait(Len(txs) + 1)>>,
                    !.txnHash = Len(txs) + 1,
                    !.submissions = @ + 1]]
    /\ UNCHANGED <<credits, ids, receipts, envWrites, icall, gateway, rcall>>

\* await contract.write.borrow(...) rejects although the node accepted the
\* signed transaction (the response was lost); the transaction is in the pool.
BorrowSubmitLost(c) ==
    /\ bcall[c].pc = "submitting"
    /\ Simulate(BorrowTx(c, bcall[c])) = NoError
    /\ txs' = Append(txs, Pooled(BorrowTx(c, bcall[c]), PendingNonce))
    /\ pending' = pending \cup {Len(txs) + 1}
    /\ bcall' = [bcall EXCEPT ![c] =
          [@ EXCEPT !.pc = "failed",
                    !.sent = Settle(@, "error"), !.error = "TransportError",
                    !.submissions = @ + 1]]
    /\ UNCHANGED <<credits, ids, receipts, envWrites, icall, gateway, rcall>>

\* The steps of the borrow calls in flight.
NextBorrowSteps ==
    \/ \E c \in BorrowCalls : BorrowSubmit(c)
    \/ \E c \in BorrowCalls : BorrowSubmitRevert(c)
    \/ \E c \in BorrowCalls : BorrowSubmitFail(c)
    \/ \E c \in BorrowCalls : BorrowSubmitLost(c)
    \/ \E c \in BorrowCalls : BorrowReceipt(c)
    \/ \E c \in BorrowCalls : BorrowReceiptFail(c)

NextBorrowTo(R) ==
    \/ \E c \in BorrowCalls, p \in PositionRefs, a \in Amounts, t \in R :
          BorrowStart(c, p, a, t)
    \/ NextBorrowSteps

\* ============================================ SecuredLine.getOpenPositionIds
\* Mutant: the read of the first id is sent together with the counts read.
IdsStart_eager(c) ==
    /\ gateway.state = "ready"
    /\ icall[c].pc = "idle"
    /\ icall' = [icall EXCEPT ![c] = [@ EXCEPT !.pc = "counts",
                    !.sent = <<ContractRead("counts", 0), ContractRead("ids", 0)>>]]
    /\ UNCHANGED <<credits, ids, txs, pending, receipts, envWrites, bcall, gateway, rcall>>

\* getOpenPositionIds() is called: the counts read is in flight.
IdsStart(c) ==
    /\ gateway.state = "ready"
    /\ icall[c].pc = "idle"
    /\ icall' = [icall EXCEPT ![c] = [@ EXCEPT !.pc = "counts",
                    !.sent = <<ContractRead("counts", 0)>>]]
    /\ UNCHANGED <<credits, ids, txs, pending, receipts, envWrites, bcall, gateway, rcall>>

\* Mutant: the loop stops one index early.
Promises_skipLast(openPositionCount) == [k \in 1..(openPositionCount - 1) |-> k - 1]

\* The promises pushed by the loop `for (i = 0n; i < openPositionCount; i += 1n)`:
\* promises[k] is the read ids([k - 1]).
Promises(openPositionCount) == [k \in 1..openPositionCount |-> k - 1]

\* const [openPositionCount] = await this.contract.read.counts(); the loop
\* then issues ids([i]) for every i below it, all before the next await.
IdsCounts(c) ==
    /\ icall[c].pc = "counts"
    /\ icall' = [icall EXCEPT ![c] =
          [@ EXCEPT !.pc = "fanout",
                    !.sent = Settle(@, "ok") \o [k \in 1..contract_counts(ids)[1] |-> ContractRead("ids", k - 1)], !.openPositionCount = contract_counts(ids)[1],
                    !.promises = Promises(contract_counts(ids)[1])]]
    /\ UNCHANGED <<credits, ids, txs, pending, receipts, envWrites, bcall, gateway, rcall>>

\* Mutant: a counts read that rejects is caught and an empty list returned.
IdsCountsFail_empty(c) ==
    /\ icall[c].pc = "counts"
    /\ icall' = [icall EXCEPT ![c] = [@ EXCEPT !.pc = "returned",
                    !.sent = Settle(@, "error")]]
    /\ UNCHANGED <<credits, ids, txs, pending, receipts, envWrites, bcall, gateway, rcall>>

\* The counts read rejects; getOpenPositionIds rejects.
IdsCountsFail(c) ==
    /\ icall[c].pc = "counts"
    /\ icall' = [icall EXCEPT ![c] = [@ EXCEPT !.pc = "failed",
                    !.sent = Settle(@, "error"), !.error = "TransportError"]]
    /\ UNCHANGED <<credits, ids, txs, pending, receipts, envWrites, bcall, gateway, rcall>>

Settled(ic) == {ic.completions[j][1] : j \in 1..Len(ic.completions)}
Outstanding(ic) == (1..Len(ic.promises)) \ Settled(ic)

\* Mutant: the read resolves with the place in the list instead of the id.
IdsRead_placeAsId(c, k) ==
    /\ icall[c].pc = "fanout"
    /\ k \in Outstanding(icall[c])
    /\ icall[c].promises[k] < Len(ids)
    /\ icall' = [icall EXCEPT ![c] =
          [@ EXCEPT !.completions = Append(@, <<k, k>>),
                    !.sent = SettleAt(@, k + 1, "ok")]]
    /\ UNCHANGED <<credits, ids, txs, pending, receipts, envWrites, bcall, gateway, rcall>>

\* One of the outstanding ids([i]) reads resolves, in any order, with the
\* array element the contract holds at that moment.
IdsRead(c, k) ==
    /\ icall[c].pc = "fanout"
    /\ k \in Outstanding(icall[c])
    /\ icall[c].promises[k] < Len(ids)
    /\ icall' = [icall EXCEPT ![c] =
          [@ EXCEPT !.completions = Append(@, <<k, ids[icall[c].promises[k] + 1]>>),
                    !.sent = SettleAt(@, k + 1, "ok")]]
    /\ UNCHANGED <<credits, ids, txs, pending, receipts, envWrites, bcall, gateway, rcall>>

\* ids([i]) beyond the end of the array reverts: Promise.all rejects with it.
IdsReadRevert(c, k) ==
    /\ icall[c].pc = "fanout"
    /\ k \in Outstanding(icall[c])
    /\ icall[c].promises[k] >= Len(ids)
    /\ icall' = [icall EXCEPT ![c] = [@ EXCEPT !.pc = "failed",
                    !.sent = SettleAt(@, k + 1, "reverted"), !.error = "ReadReverted"]]
    /\ UNCHANGED <<credits, ids, txs, pending, receipts, envWrites, bcall, gateway, rcall>>

\* Mutant: a read that rejects is given a default value, as with allSettled.
IdsReadFail_swallow(c, k) ==
    /\ icall[c].pc = "fanout"
    /\ k \in Outstanding(icall[c])
    /\ icall' = [icall EXCEPT ![c] =
          [@ EXCEPT !.completions = Append(@, <<k, 1>>),
                    !.sent = SettleAt(@, k + 1, "error")]]
    /\ UNCHANGED <<credits, ids, txs, pending, receipts, envWrites, bcall, gateway, rcall>>

\* One of the outstanding reads rejects in transport: Promise.all rejects.
IdsReadFail(c, k) ==
    /\ icall[c].pc = "fanout"
    /\ k \in Outstanding(icall[c])
    /\ icall' = [icall EXCEPT ![c] = [@ EXCEPT !.pc = "failed",
                    !.sent = SettleAt(@, k + 1, "error"), !.error = "TransportError"]]
    /\ UNCHANGED <<credits, ids, txs, pending, receipts, envWrites, bcall, gateway, rcall>>

\* Mutant: the results are collected in the order the reads complete.
PromiseAll_completionOrder(promises, completions) ==
    [k \in 1..Len(promises) |-> completions[k][2]]

\* await Promise.all(promises): the value promises[k] resolved with, at position k.
PromiseAll(promises, completions) ==
    [k \in 1..Len(promises) |->
        completions[CHOOSE j \in 1..Len(completions) : completions[j][1] = k][2]]

\* await Promise.all(promises) resolves once every read has; the array is returned.
IdsReturn(c) ==
    /\ icall[c].pc = "fanout"
    /\ Outstanding(icall[c]) = {}
    /\ icall' = [icall EXCEPT ![c] =
          [@ EXCEPT !.pc = "returned",
                    !.result = PromiseAll(icall[c].promises, icall[c].completions)]]
    /\ UNCHANGED <<credits, ids, txs, pending, receipts, envWrites, bcall, gateway, rcall>>

\* The steps of the getOpenPositionIds calls in flight.
NextIdsSteps ==
    \/ \E c \in IdsCalls : IdsCounts(c)
    \/ \E c \in IdsCalls : IdsCountsFail(c)
    \/ \E c \in IdsCalls, k \in 1..Cardinality(PositionRefs) : IdsRead(c, k)
    \/ \E c \in IdsCalls, k \in 1..Cardinality(PositionRefs) : IdsReadRevert(c, k)
    \/ \E c \in IdsCalls, k \in 1..Cardinality(PositionRefs) : IdsReadFail(c, k)
    \/ \E c \in IdsCalls : IdsReturn(c)

NextIds ==
    \/ \E c \in IdsCalls : IdsStart(c)
    \/ NextIdsSteps

\* ======================================================== the simple reads
\* Mutant: getPosition rebuilds the snapshot and leaves a field out.
getPosition_partial(cr, positionId) ==
    [contract_getCreditPosition(cr, positionId) EXCEPT !.interestRepaid = 0]

\* getPosition(positionId): the result of contract.read.getCreditPosition.
getPosition(cr, positionId) ==
    LET position == contract_getCreditPosition(cr, positionId) IN position

\* getCreditPosition(tokenId): the pass-through view.
getCreditPosition(cr, tokenId) == contract_getCreditPosition(cr, tokenId)

\* available(positionId): the pass-through view, a pair.
available(cr, positionId) == contract_available(cr, positionId)

\* Mutant: the two components of the pair are named the wrong way round.
getPositionLiquidity_swapped(cr, positionId) ==
    LET avail == contract_available(cr, positionId)
    IN [availableAssets |-> avail[2], claimableInterest |-> avail[1]]

\* getPositionLiquidity(positionId): the pair of contract.read.available, named.
getPositionLiquidity(cr, positionId) ==
    LET avail == contract_available(cr, positionId)
    IN [availableAssets |-> avail[1], claimableInterest |-> avail[2]]

\* The contract function each simple read calls.
ReadFn(op) ==
    IF op \in {"getPosition", "getCreditPosition"} THEN "getCreditPosition" ELSE "available"

\* The number of writes the ledger has taken so far.
LedgerVersion == envWrites + Cardinality(DOMAIN receipts)

ReadOps == {"getPosition", "getCreditPosition", "available", "getPositionLiquidity"}

\* ================================== the simple reads, as calls in flight
\* A simple read is called: its contract read is sent through the public client.
ReadStart(op, id) ==
    /\ gateway.state = "ready"
    /\ Len(rcall) < MaxReadCalls
    /\ rcall' = Append(rcall, NewRead(op, id, ContractRead(ReadFn(op), id)))
    /\ UNCHANGED <<credits, ids, txs, pending, receipts, envWrites, bcall, icall, gateway>>

\* What the node answers to a read of position arg on the current ledger.
NodeAnswer(arg) ==
    [position |-> contract_getCreditPosition(credits, arg),
     pair |-> contract_available(credits, arg),
     version |-> LedgerVersion]

\* The call after its method returned what the read of position id gave;
\* the node has answered the call's request.
Returned(r0, id) ==
    LET r == [r0 EXCEPT !.sent = Settle(@, "ok"), !.response = NodeAnswer(r0.sent[Len(r0.sent)].arg)] IN
    CASE r.op = "getPosition" ->
            [r EXCEPT !.pc = "returned", !.position = getPosition(credits, id)]
      [] r.op = "getCreditPosition" ->
            [r EXCEPT !.pc = "returned", !.position = getCreditPosition(credits, id)]
      [] r.op = "available" ->
            [r EXCEPT !.pc = "returned", !.pair = available(credits, id)]
      [] OTHER ->
            [r EXCEPT !.pc = "returned",
                      !.availableAssets = getPositionLiquidity(credits, id).availableAssets,
                      !.claimableInterest = getPositionLiquidity(credits, id).claimableInterest]

\* Mutant: the argument is kept in a field of the instance that the calls share.
ReadResolve_shared(c) ==
    /\ c <= Len(rcall)
    /\ rcall[c].pc = "querying"
    /\ rcall' = [rcall EXCEPT ![c] = Returned(rcall[c], rcall[Len(rcall)].id)]
    /\ UNCHANGED <<credits, ids, txs, pending, receipts, envWrites, bcall, icall, gateway>>

\* Mutant: the read is made by a call that changes state (available claims
\* the interest it reports).
ReadResolve_touch(c) ==
    /\ c <= Len(rcall)
    /\ rcall[c].pc = "querying"
    /\ rcall' = [rcall EXCEPT ![c] = Returned(rcall[c], rcall[c].id)]
    /\ credits' = [credits EXCEPT ![rcall[c].id].interestRepaid = 0]
    /\ UNCHANGED <<ids, txs, pending, receipts, envWrites, bcall, icall, gateway>>

\* await this.contract.read.fn([positionId]) resolves with the node's answer
\* to this call's request; the method returns it.
ReadResolve(c) ==
    /\ c <= Len(rcall)
    /\ rcall[c].pc = "querying"
    /\ rcall' = [rcall EXCEPT ![c] = Returned(rcall[c], rcall[c].id)]
    /\ UNCHANGED <<credits, ids, txs, pending, receipts, envWrites, bcall, icall, gateway>>

\* Mutant: a failed read is sent once more before the method gives up.
ReadReject_retry(c) ==
    /\ c <= Len(rcall)
    /\ rcall[c].pc = "querying"
    /\ rcall' = [rcall EXCEPT ![c] =
          IF Len(@.sent) < 2
          THEN [@ EXCEPT !.sent = Settle(@, "error") \o <<ContractRead(ReadFn(rcall[c].op), rcall[c].id)>>]
          ELSE [@ EXCEPT !.pc = "failed", !.sent = Settle(@, "error"), !.error = "TransportError"]]
    /\ UNCHANGED <<credits, ids, txs, pending, receipts, envWrites, bcall, icall, gateway>>

\* await this.contract.read.fn([positionId]) rejects; the method rejects with it.
ReadReject(c) ==
    /\ c <= Len(rcall)
    /\ rcall[c].pc = "querying"
    /\ rcall' = [rcall EXCEPT ![c] =
          [@ EXCEPT !.pc = "failed", !.sent = Settle(@, "error"), !.error = "TransportError"]]
    /\ UNCHANGED <<credits, ids, txs, pending, receipts, envWrites, bcall, icall, gateway>>

\* The steps of the simple read calls in flight.
NextReadSteps ==
    \/ \E c \in ReadCalls : ReadResolve(c)
    \/ \E c \in ReadCalls : ReadReject(c)

NextReadCalls ==
    \/ \E o \in ReadOps, p \in PositionRefs : ReadStart(o, p)
    \/ NextReadSteps

\* ============================================================ constructor
\* Mutant: the constructor checks the contract with a first read before it
\* returns.
Constructor_probe(address, privateKey, chainId, rpcUrl) ==
    /\ gateway.state = "none"
    /\ gateway' = SecuredLine(address, privateKey, chainId, rpcUrl)
    /\ rcall' = Append(rcall, NewRead("available", 1,
                    Send("available", 1, [transport |-> rpcUrl], address)))
    /\ UNCHANGED <<credits, ids, txs, pending, receipts, envWrites, bcall, icall>>

\* new SecuredLine(params) runs: the instance, or no instance and the error.
Constructor(address, privateKey, chainId, rpcUrl) ==
    /\ gateway.state = "none"
    /\ gateway' = SecuredLine(address, privateKey, chainId, rpcUrl)
    /\ UNCHANGED <<credits, ids, txs, pending, receipts, envWrites, bcall, icall, rcall>>

\* The number of method calls made on the instance so far.
CallsStarted ==
    Cardinality({c \in BorrowCalls : bcall[c].pc # "idle"})
    + Cardinality({c \in IdsCalls : icall[c].pc # "idle"})
    + Len(rcall)

NextWrites ==
    \/ \E p \in PositionRefs, k \in Amounts : EnvWithdraw(p, k)
    \/ \E p \in PositionRefs : EnvClose(p)

\* Borrow calls with the recipient omitted, against a ledger that other
\* accounts write to as well: at most MaxBorrowOps operations on the
\* ledger, borrow calls and writes of other accounts together.  The calls
\* in flight share the signer's nonce, so the transaction of one may take
\* the place of a pending transaction of another, in either order.
NextBorrow ==
    \/ \E c \in BorrowCalls, p \in PositionRefs, a \in Amounts :
          CallsStarted + envWrites < MaxBorrowOps /\ BorrowStart(c, p, a, "none")
    \/ NextBorrowSteps
    \/ \E c \in BorrowCalls, h \in 1..MaxBorrowCalls : BorrowSubmitReplace(c, h)
    \/ \E p \in PositionRefs, k \in Amounts :
          CallsStarted + envWrites < MaxBorrowOps /\ EnvWithdraw(p, k)
    \/ \E p \in PositionRefs :
          CallsStarted + envWrites < MaxBorrowOps /\ EnvClose(p)
    \/ Mine
SpecBorrow == Init /\ [][NextBorrow]_vars

\* getOpenPositionIds calls against a ledger whose positions may be closed meanwhile.
SpecIds == Init /\ [][NextIds \/ NextWrites]_vars

\* One instance from construction on: at most MaxInstanceCalls operations on
\* the ledger, calls of any of the instance's methods and writes of other
\* accounts, interleaved in every way.
NextGateway ==
    \/ \E a \in Addresses, k \in PrivateKeys, n \in ChainIds, u \in RpcUrls :
          Constructor(a, k, n, u)
    \/ \E c \in BorrowCalls, p \in PositionRefs, a \in Amounts :
          CallsStarted + envWrites < MaxInstanceCalls /\ BorrowStart(c, p, a, "none")
    \/ \E c \in IdsCalls :
          CallsStarted + envWrites < MaxInstanceCalls /\ IdsStart(c)
    \/ \E o \in ReadOps, p \in PositionRefs :
          CallsStarted + envWrites < MaxInstanceCalls /\ ReadStart(o, p)
    \/ \E p \in PositionRefs, k \in Amounts :
          CallsStarted + envWrites < MaxInstanceCalls /\ EnvWithdraw(p, k)
    \/ \E p \in PositionRefs :
          CallsStarted + envWrites < MaxInstanceCalls /\ EnvClose(p)
    \/ NextBorrowSteps
    \/ NextIdsSteps
    \/ NextReadSteps
    \/ Mine
SpecGateway == InitGateway /\ [][NextGateway]_vars

\* borrow({positionId: openPositionIds[k - 1], amount}) with the array a
\* getOpenPositionIds call returned.
BorrowFromIds(c, i, k, amount) ==
    /\ icall[i].pc = "returned"
    /\ k <= Len(icall[i].result)
    /\ BorrowStart(c, icall[i].result[k], amount, "none")

\* The quick start: getOpenPositionIds, then borrow on an id it returned;
\* at most MaxInstanceCalls calls, against a ledger other accounts write to.
NextDrawdown ==
    \/ \E c \in IdsCalls : CallsStarted < MaxInstanceCalls /\ IdsStart(c)
    \/ \E c \in BorrowCalls, i \in IdsCalls, k \in 1..Cardinality(PositionRefs), a \in Amounts :
          CallsStarted < MaxInstanceCalls /\ BorrowFromIds(c, i, k, a)
    \/ NextIdsSteps
    \/ NextBorrowSteps
    \/ NextWrites
    \/ Mine
SpecDrawdown == Init /\ [][NextDrawdown]_vars

\* Borrow calls with and without a recipient.
SpecRecipient == Init /\ [][NextBorrowTo(Recipients) \/ Mine]_vars

\* Simple read calls in flight together, against a ledger that other
\* accounts write to.
SpecReadCalls == Init /\ [][NextReadCalls \/ NextWrites]_vars

\* Borrow calls in flight together, on a ledger no other account writes to,
\* whose transactions may take each other's nonce in either order.
NextReplace ==
    \/ NextBorrowTo({"none"})
    \/ \E c \in BorrowCalls, h \in 1..MaxBorrowCalls : BorrowSubmitReplace(c, h)
    \/ Mine
SpecReplace == Init /\ [][NextReplace]_vars

\* An instance constructed with any well-formed key.
InitSigner ==
    /\ InitLedger
    /\ \E k \in ValidKeys : gateway = SecuredLine(LineAddress, k, "base", BaseRpc)

\* Borrow calls on one position, with and without a recipient, of an
\* instance of any key.
NextSigner ==
    \/ \E c \in BorrowCalls, a \in Amounts, t \in Recipients : BorrowStart(c, 1, a, t)
    \/ NextBorrowSteps
    \/ Mine
SpecSigner == InitSigner /\ [][NextSigner]_vars

\* An instance whose rpcUrl is the chain's default endpoint or the fork's.
InitEndpoints ==
    /\ InitLedger
    /\ \E u \in {BaseRpc, ForkRpc} :
          gateway = SecuredLine(LineAddress, "key", "base", u)

\* Borrow calls on one position up to their end: every receipt wait in flight keeps polling
\* and its time limit keeps running, so a wait whose receipt can be read is
\* eventually answered and a wait is eventually given up.
NextCompletion ==
    \/ \E c \in BorrowCalls, a \in Amounts : BorrowStart(c, 1, a, "none")
    \/ NextBorrowSteps
    \/ \E c \in BorrowCalls : BorrowReceiptTimeout(c)
    \/ Mine
SpecCompletion ==
    /\ InitEndpoints
    /\ [][NextCompletion]_vars
    /\ \A c \in BorrowCalls : WF_vars(BorrowReceipt(c))
    /\ \A c \in BorrowCalls : WF_vars(BorrowReceiptTimeout(c))

\* ================================================================ claims
Finished(b) == b.pc \in {"returned", "failed"}
TxsOf(c) == {h \in 1..Len(txs) : txs[h].call = c}

\* C1: borrow never returns a transaction hash for a transaction whose
\* execution reverted; a reverted receipt makes borrow fail with the reason.
\* (The code returns result.transactionHash without reading result.status.)
C1_RevertedNeverReturned ==
    \A c \in BorrowCalls :
        bcall[c].pc = "returned" => receipts[bcall[c].result] = "success"

\* C2: borrow returns a hash only after the transaction it submitted has
\* been mined: the step that returns finds the receipt of that transaction
\* recorded, and when borrow has returned the draw-down was executed and,
\* no other writer having touched the position, a read of the position
\* shows it.  (The code returns for a receipt of any status, and for the
\* receipt of a transaction that replaced the one it submitted.)
C2_ReturnAfterMined ==
    /\ [](\A c \in BorrowCalls :
            bcall[c].pc = "returned" =>
               /\ bcall[c].txnHash \in DOMAIN receipts
               /\ bcall[c].txnHash \notin pending
               /\ receipts[bcall[c].txnHash] = "success"
               /\ (~bcall[c].interfered =>
                     getPosition(credits, bcall[c].positionId).principal
                        = bcall[c].prePrincipal + bcall[c].amount))
    /\ [][\A c \in BorrowCalls :
            bcall[c].pc # "returned" /\ bcall'[c].pc = "returned" =>
               bcall[c].txnHash \in DOMAIN receipts]_vars

\* C3: one borrow call submits at most one transaction, whether submission
\* fails, execution reverts or the receipt wait fails; at most one
\* transaction of the call is ever executed.
C3_AtMostOneSubmission ==
    \A c \in BorrowCalls :
        /\ bcall[c].submissions <= 1
        /\ Cardinality(TxsOf(c)) <= 1
        /\ Cardinality({h \in TxsOf(c) : h \in DOMAIN receipts /\ receipts[h] = "success"}) <= 1

C3_Witness ==
    \E c \in BorrowCalls :
        /\ bcall[c].pc = "failed"
        /\ bcall[c].txnHash # NoHash
        /\ bcall[c].txnHash \in DOMAIN receipts
        /\ Cardinality(TxsOf(c)) = 1

\* C4: for an open position with principal P and available liquidity A and
\* an amount X <= A, a borrow that returned a hash with no other writer in
\* between leaves principal P + X and available liquidity A - X, as read by
\* getPosition and getPositionLiquidity.  (A call whose transaction was
\* replaced by a draw-down on another position returns too.)
C4_Conservation ==
    \A c \in BorrowCalls :
        (/\ bcall[c].pc = "returned"
         /\ bcall[c].preOpen
         /\ bcall[c].amount <= bcall[c].preAvailable
         /\ ~bcall[c].interfered)
        => /\ getPosition(credits, bcall[c].positionId).principal
                = bcall[c].prePrincipal + bcall[c].amount
           /\ getPositionLiquidity(credits, bcall[c].positionId).availableAssets
                = bcall[c].preAvailable - bcall[c].amount

\* C5: a borrow whose amount exceeds the available liquidity of an open
\* position (no other writer in between) never returns a hash: it fails,
\* with reason NoLiquidity whenever the remote service answered, no
\* transaction is submitted, and principal and available liquidity re-read
\* after the failure equal their values before the call.
C5_NoLiquidity ==
    \A c \in BorrowCalls :
        (/\ Finished(bcall[c])
         /\ bcall[c].preOpen
         /\ bcall[c].amount > bcall[c].preAvailable
         /\ ~bcall[c].interfered)
        => /\ bcall[c].pc = "failed"
           /\ bcall[c].error # "TransportError" => bcall[c].error = "NoLiquidity"
           /\ TxsOf(c) = {}
           /\ getPosition(credits, bcall[c].positionId).principal = bcall[c].prePrincipal
           /\ getPositionLiquidity(credits, bcall[c].positionId).availableAssets
                = bcall[c].preAvailable

C5_Witness ==
    \E c \in BorrowCalls :
        /\ bcall[c].pc = "failed"
        /\ bcall[c].error = "NoLiquidity"
        /\ bcall[c].preOpen
        /\ bcall[c].amount > bcall[c].preAvailable
        /\ ~bcall[c].interfered

\* C6: a borrow against a nonexistent or closed position never returns a
\* hash: it fails, for every amount, with reason PositionIsClosed whenever
\* the remote service answered, although the amount also exceeds the
\* position's available liquidity (PositionIsClosed wins over NoLiquidity).
C6_PositionIsClosed ==
    \A c \in BorrowCalls :
        (Finished(bcall[c]) /\ ~bcall[c].preOpen)
        => /\ bcall[c].pc = "failed"
           /\ bcall[c].error # "TransportError" => bcall[c].error = "PositionIsClosed"
           /\ TxsOf(c) = {}

C6_Witness ==
    \E c \in BorrowCalls :
        /\ bcall[c].pc = "failed"
        /\ bcall[c].error = "PositionIsClosed"
        /\ ~bcall[c].preOpen
        /\ bcall[c].amount = MaxAmount
        /\ bcall[c].amount > bcall[c].preAvailable

\* C7: getOpenPositionIds returns a sequence whose length is the open count
\* it read; with the list untouched during the call, its length is counts()[0]
\* and its element at index i is ids(i) for every i below the count; with an
\* open count of zero it returns the empty sequence and no step of it can fail.
C7_OpenPositionIds ==
    \A c \in IdsCalls :
        /\ icall[c].pc = "returned" =>
              /\ Len(icall[c].result) = icall[c].openPositionCount
              /\ ~icall[c].listChanged =>
                    /\ Len(icall[c].result) = contract_counts(ids)[1]
                    /\ \A i \in 0..(contract_counts(ids)[1] - 1) :
                          icall[c].result[i + 1] = ids[i + 1]
              /\ icall[c].openPositionCount = 0 => icall[c].result = <<>>
        /\ icall[c].pc = "fanout" /\ icall[c].openPositionCount = 0 =>
              /\ ENABLED IdsReturn(c)
              /\ \A k \in 1..Cardinality(PositionRefs) :
                    ~ENABLED IdsReadRevert(c, k) /\ ~ENABLED IdsReadFail(c, k)

C7_Witness ==
    \E c \in IdsCalls :
        /\ icall[c].pc = "returned"
        /\ ~icall[c].listChanged
        /\ Len(icall[c].result) = 2
        /\ icall[c].result = ids

C7_WitnessEmpty ==
    \E c \in IdsCalls :
        /\ icall[c].pc = "returned"
        /\ icall[c].openPositionCount = 0
        /\ icall[c].result = <<>>

\* C8: whatever the order in which the ids reads complete, the returned
\* sequence holds at position i the value the read for index i resolved with.
C8_IndexOrder ==
    \A c \in IdsCalls :
        icall[c].pc = "returned" =>
            \A k \in 1..Len(icall[c].result) :
                \E j \in 1..Len(icall[c].completions) :
                    /\ icall[c].completions[j][1] = k
                    /\ icall[c].promises[k] = k - 1
                    /\ icall[c].completions[j][2] = icall[c].result[k]

C8_Witness ==
    \E c \in IdsCalls :
        /\ icall[c].pc = "returned"
        /\ Len(icall[c].completions) = 2
        /\ icall[c].completions[1][1] = 2
        /\ icall[c].result[1] # icall[c].result[2]

\* C9: for every position reference, getPositionLiquidity(id) returns
\* {availableAssets, claimableInterest} equal to the pair (first, second)
\* that available(id) returns on the same ledger state, whatever ran while
\* either call was in flight.
C9_LiquidityMatchesAvailable ==
    \A i \in DOMAIN rcall : \A j \in DOMAIN rcall :
        (/\ rcall[i].op = "available" /\ rcall[i].pc = "returned"
         /\ rcall[j].op = "getPositionLiquidity" /\ rcall[j].pc = "returned"
         /\ rcall[i].id = rcall[j].id
         /\ rcall[i].response.version = rcall[j].response.version)
        => /\ rcall[j].availableAssets = rcall[i].pair[1]
           /\ rcall[j].claimableInterest = rcall[i].pair[2]

C9_Witness ==
    \E i \in DOMAIN rcall : \E j \in DOMAIN rcall :
        /\ rcall[i].op = "available" /\ rcall[i].pc = "returned"
        /\ rcall[j].op = "getPositionLiquidity" /\ rcall[j].pc = "returned"
        /\ rcall[i].id = rcall[j].id
        /\ rcall[i].response.version = rcall[j].response.version
        /\ rcall[i].response.version > 0
        /\ rcall[i].pair[1] # rcall[i].pair[2]

\* C10: for every position reference, getCreditPosition(id) and
\* getPosition(id) return equal snapshots on the same ledger state, whatever
\* ran while either call was in flight.
C10_PositionMirrors ==
    \A i \in DOMAIN rcall : \A j \in DOMAIN rcall :
        (/\ rcall[i].op = "getCreditPosition" /\ rcall[i].pc = "returned"
         /\ rcall[j].op = "getPosition" /\ rcall[j].pc = "returned"
         /\ rcall[i].id = rcall[j].id
         /\ rcall[i].response.version = rcall[j].response.version)
        => rcall[i].position = rcall[j].position

C10_Witness ==
    \E i \in DOMAIN rcall : \E j \in DOMAIN rcall :
        /\ rcall[i].op = "getCreditPosition" /\ rcall[i].pc = "returned"
        /\ rcall[j].op = "getPosition" /\ rcall[j].pc = "returned"
        /\ rcall[i].id = rcall[j].id
        /\ rcall[i].response.version = rcall[j].response.version
        /\ rcall[i].response.version > 0
        /\ rcall[i].position.isOpen

\* The requests the calls of the instance have sent so far.
Range(f) == {f[x] : x \in DOMAIN f}
Sent ==
    UNION ({Range(bcall[c].sent) : c \in BorrowCalls}
           \cup {Range(icall[c].sent) : c \in IdsCalls}
           \cup {Range(rcall[c].sent) : c \in DOMAIN rcall})

\* C11: the recipient of every borrow transaction sent is the caller's `to`
\* when the call gave one, and otherwise the address of the signing key the
\* instance was constructed with; never another address.
C11_Recipient ==
    \A h \in 1..Len(txs) :
        /\ bcall[txs[h].call].to # "none" => txs[h].to = bcall[txs[h].call].to
        /\ bcall[txs[h].call].to = "none" =>
              txs[h].to = privateKeyToAccount(gateway.params.privateKey).address

C11_Witness ==
    \E h \in 1..Len(txs) : \E g \in 1..Len(txs) :
        /\ txs[h].to = "other"
        /\ bcall[txs[g].call].to = "none"
        /\ txs[g].to = WalletAddress

\* C12: every request of an instance (each read, the borrow submission, the
\* receipt wait) goes to the endpoint passed to the constructor as rpcUrl,
\* every contract call names the address passed to it, and no two requests
\* of the instance go to different endpoints.
\* (The code gives the wallet client the chain's default endpoint.)
C12_OneRemoteInstance ==
    /\ \A q \in Sent :
          /\ q.url = gateway.params.rpcUrl
          /\ q.fn # "waitForTransactionReceipt" => q.address = gateway.params.address
    /\ \A q \in Sent : \A r \in Sent : q.url = r.url

\* C13: a construction with an unknown chain or a malformed key fails: it
\* leaves an error and no instance, and in no state without an instance has
\* any method been called or any request been sent.
C13_FailedConstruction ==
    /\ (/\ gateway.state # "none"
        /\ (gateway.params.chainId \notin DOMAIN Chains
              \/ gateway.params.privateKey \notin ValidKeys))
       => /\ gateway.state = "failed"
          /\ gateway.error # NoError
          /\ gateway.contract = NoContract
          /\ gateway.walletClient = NoWalletClient
          /\ gateway.publicClient = NoPublicClient
    /\ gateway.state # "ready" => CallsStarted = 0 /\ Sent = {} /\ txs = <<>>

C13_Witness ==
    /\ gateway.state = "failed"
    /\ gateway.params.chainId = "nochain"
    /\ gateway.params.privateKey \in ValidKeys
    /\ gateway.error = "TypeError"

\* C14: a borrow that fails is told apart by its cause: when the remote
\* service reverts the state change, at submission or at execution, borrow
\* fails with the remote reason code; when the request could not be
\* dispatched it fails with a transport error, which is no reason code.
\* (A transaction that reverts at execution is returned as a hash: see C1.)
C14_FailureByCause ==
    \A c \in BorrowCalls :
        /\ (bcall[c].sent # <<>> /\ bcall[c].sent[1].outcome = "reverted") =>
              /\ bcall[c].pc = "failed"
              /\ bcall[c].error \in {"NoLiquidity", "PositionIsClosed"}
        /\ (bcall[c].sent # <<>> /\ bcall[c].sent[1].outcome = "error") =>
              /\ bcall[c].pc = "failed"
              /\ bcall[c].error = "TransportError"
        /\ (/\ bcall[c].sent # <<>>
            /\ bcall[c].sent[Len(bcall[c].sent)].outcome = "ok"
            /\ bcall[c].txnHash \in DOMAIN receipts
            /\ receipts[bcall[c].txnHash] = "reverted") =>
              /\ bcall[c].pc \in {"waiting", "failed"}
              /\ bcall[c].pc = "failed" => bcall[c].error \in {"NoLiquidity", "PositionIsClosed"}

\* C15: a call whose remote step failed (a read that rejected or reverted,
\* the submission, the receipt wait) has failed to its caller with that
\* error and has returned no value.
Failed(q) == q.outcome \in {"error", "reverted"}
C15_FailuresPropagate ==
    /\ \A c \in BorrowCalls :
          (\E i \in DOMAIN bcall[c].sent : Failed(bcall[c].sent[i])) =>
              /\ bcall[c].pc = "failed"
              /\ bcall[c].error # NoError
              /\ bcall[c].result = NoHash
    /\ \A c \in IdsCalls :
          (\E i \in DOMAIN icall[c].sent : Failed(icall[c].sent[i])) =>
              /\ icall[c].pc = "failed"
              /\ icall[c].error # NoError
              /\ icall[c].result = <<>>
    /\ \A c \in DOMAIN rcall :
          (\E i \in DOMAIN rcall[c].sent : Failed(rcall[c].sent[i])) =>
              /\ rcall[c].pc = "failed"
              /\ rcall[c].error # NoError

C15_Witness ==
    \E c \in IdsCalls :
        /\ icall[c].pc = "failed"
        /\ icall[c].openPositionCount = 2
        /\ \E i \in DOMAIN icall[c].sent : \E j \in DOMAIN icall[c].sent :
              /\ icall[c].sent[i].fn = "ids" /\ icall[c].sent[i].outcome = "error"
              /\ icall[c].sent[j].fn = "ids" /\ icall[c].sent[j].outcome = "ok"

\* A step of a read operation: a getOpenPositionIds call or a simple read
\* call starts, sends, or finishes.
ReadStep ==
    \/ \E c \in IdsCalls : icall'[c].pc # icall[c].pc
    \/ \E c \in IdsCalls : icall'[c].sent # icall[c].sent
    \/ rcall' # rcall

\* C16: no step of a read operation (getOpenPositionIds, getPosition,
\* getPositionLiquidity, the pass-through views) changes the ledger: every
\* position's principal and available liquidity, the list of open ids and
\* the transactions are as they were before the step.
C16_ReadsLeaveLedger ==
    [][ReadStep => UNCHANGED <<credits, ids, txs, pending, receipts>>]_vars

C16_Witness ==
    /\ \E c \in DOMAIN rcall : rcall[c].pc = "returned" /\ rcall[c].op = "getPositionLiquidity"
    /\ \E c \in IdsCalls : icall[c].pc = "returned" /\ Len(icall[c].result) = 2

\* C17: once constructed, no step of any operation, successful or failed,
\* changes the instance: its contract, signer address, wallet client and
\* public client stay what the constructor made them.
C17_InstanceUnchanged ==
    [][gateway.state # "none" => gateway' = gateway]_vars

C17_Witness ==
    /\ gateway.state = "ready"
    /\ gateway.params.rpcUrl = AlchemyRpc
    /\ \E c \in BorrowCalls : bcall[c].pc = "returned"
    /\ \E c \in DOMAIN rcall : rcall[c].pc = "failed"

\* C18: however the simple reads in flight on one instance interleave, a
\* read that returned asked for its own function and argument, and what it
\* returned is the node's answer to that request, not to another call's.
C18_OwnResult ==
    \A c \in DOMAIN rcall :
        rcall[c].pc = "returned" =>
            /\ rcall[c].sent[Len(rcall[c].sent)].fn = ReadFn(rcall[c].op)
            /\ rcall[c].sent[Len(rcall[c].sent)].arg = rcall[c].id
            /\ rcall[c].sent[Len(rcall[c].sent)].outcome = "ok"
            /\ rcall[c].op \in {"getPosition", "getCreditPosition"} =>
                  rcall[c].position = rcall[c].response.position
            /\ rcall[c].op = "available" => rcall[c].pair = rcall[c].response.pair
            /\ rcall[c].op = "getPositionLiquidity" =>
                  /\ rcall[c].availableAssets = rcall[c].response.pair[1]
                  /\ rcall[c].claimableInterest = rcall[c].response.pair[2]

C18_Witness ==
    /\ Len(rcall) = 2
    /\ rcall[1].pc = "returned" /\ rcall[2].pc = "returned"
    /\ rcall[1].op = "getPositionLiquidity" /\ rcall[2].op = "getPositionLiquidity"
    /\ rcall[1].id # rcall[2].id
    /\ rcall[1].availableAssets # rcall[2].availableAssets
    /\ rcall[1].response.version > rcall[2].response.version

\* C19: an id that getOpenPositionIds returned is a draw-down target: with
\* no other writer since the list was read, a borrow on it for an amount
\* within its available liquidity is not rejected by the remote service
\* (never PositionIsClosed), and unless the transport fails it returns the
\* hash of a transaction that executed.
C19_ReturnedIdsBorrowable ==
    \A c \in BorrowCalls :
        (/\ Finished(bcall[c])
         /\ \E i \in IdsCalls :
               /\ icall[i].pc = "returned"
               /\ ~icall[i].listChanged
               /\ \E k \in 1..Len(icall[i].result) : icall[i].result[k] = bcall[c].positionId
         /\ ~bcall[c].interfered)
        => /\ bcall[c].error # "PositionIsClosed"
           /\ bcall[c].amount <= bcall[c].preAvailable =>
                 /\ bcall[c].error # "NoLiquidity"
                 /\ bcall[c].pc = "failed" => bcall[c].error = "TransportError"
                 /\ bcall[c].pc = "returned" =>
                       /\ bcall[c].result \in DOMAIN receipts
                       /\ receipts[bcall[c].result] = "success"

C19_Witness ==
    \E c \in BorrowCalls : \E i \in IdsCalls :
        /\ bcall[c].pc = "returned"
        /\ receipts[bcall[c].result] = "success"
        /\ ~bcall[c].interfered
        /\ icall[i].pc = "returned"
        /\ ~icall[i].listChanged
        /\ Len(icall[i].result) = 2
        /\ icall[i].result[2] = bcall[c].positionId

\* C20: a simple read sends exactly one request in its whole life: a read
\* that returned got the answer to it, a read that failed did not send
\* again, and the answer is the ledger's at the time it was given, not a
\* value kept from an earlier call.
C20_SingleQuery ==
    \A c \in DOMAIN rcall :
        /\ Len(rcall[c].sent) = 1
        /\ rcall[c].pc = "querying" => rcall[c].sent[1].outcome = "pending"
        /\ rcall[c].pc = "failed" =>
              /\ rcall[c].sent[1].outcome = "error"
              /\ rcall[c].response = NoAnswer
        /\ rcall[c].pc = "returned" =>
              /\ rcall[c].sent[1].outcome = "ok"
              /\ rcall[c].response.version = LedgerVersion =>
                    /\ rcall[c].response.position = contract_getCreditPosition(credits, rcall[c].id)
                    /\ rcall[c].response.pair = contract_available(credits, rcall[c].id)

C20_Witness ==
    \E c \in DOMAIN rcall : \E d \in DOMAIN rcall :
        /\ c < d
        /\ rcall[c].op = rcall[d].op /\ rcall[c].id = rcall[d].id
        /\ rcall[c].pc = "returned" /\ rcall[d].pc = "returned"
        /\ rcall[c].response.version < rcall[d].response.version
        /\ rcall[c].response.pair # rcall[d].response.pair

\* C21: the step that constructs the instance sends no request (no read, no
\* submission, no receipt wait), starts no call and leaves the ledger as it
\* was; right after it, nothing has been sent.
C21_ConstructionSendsNothing ==
    [][gateway.state = "none" /\ gateway'.state # "none" =>
          /\ Sent' = Sent
          /\ Sent' = {}
          /\ CallsStarted' = CallsStarted
          /\ UNCHANGED <<credits, ids, txs, pending, receipts>>]_vars

C21_Witness ==
    /\ gateway.state = "ready"
    /\ gateway.params.rpcUrl = AlchemyRpc
    /\ envWrites = 1
    /\ CallsStarted = 0
    /\ Sent = {}

\* C22: borrow calls in flight on one instance are not serialized: a call
\* that is about to submit can take its submission step whatever the other
\* calls are doing, also while another call's transaction is unconfirmed;
\* transactions are mined in the order they were submitted, which need not
\* be the order in which borrow was called.
C22_WritesNotSerialized ==
    /\ \A c \in BorrowCalls :
          bcall[c].pc = "submitting" =>
              ENABLED (BorrowSubmit(c) \/ BorrowSubmitRevert(c))
    /\ \A h \in DOMAIN receipts : \A g \in pending : h < g

C22_Witness ==
    /\ Len(txs) = 2
    /\ txs[1].call = 2 /\ 1 \in DOMAIN receipts
    /\ txs[2].call = 1 /\ 2 \in pending
    /\ bcall[1].pc = "waiting"

\* C23: a borrow call whose submission was accepted and whose transaction
\* the ledger that accepted it has mined eventually completes: it returns the
\* hash or fails, also when the receipt wait asks another endpoint than the
\* one the transaction was submitted to.
C23_BorrowCompletes ==
    \A c \in BorrowCalls :
        (bcall[c].pc = "waiting" /\ bcall[c].txnHash \in DOMAIN receipts)
            ~> Finished(bcall[c])

C23_Witness ==
    \E c \in BorrowCalls :
        /\ Ledger(gateway.publicClient.transport) # Ledger(gateway.walletClient.transport)
        /\ bcall[c].txnHash \in DOMAIN receipts
        /\ bcall[c].pc = "failed"
        /\ bcall[c].error = "WaitForTransactionReceiptTimeoutError"

\* C24: every transaction the instance has submitted is sent from the
\* account derived from the private key given to the constructor, which is
\* the wallet client's account and the instance's wallet address; all
\* transactions of the instance have the same sender, whoever the recipient.
C24_SignerBound ==
    /\ \A h \in 1..Len(txs) :
          /\ txs[h].from = privateKeyToAccount(gateway.params.privateKey).address
          /\ txs[h].from = gateway.walletAddress
          /\ txs[h].from = gateway.walletClient.account
    /\ \A h \in 1..Len(txs) : \A g \in 1..Len(txs) : txs[h].from = txs[g].from

C24_Witness ==
    /\ gateway.params.privateKey = "key2"
    /\ Len(txs) = 2
    /\ txs[1].from = "signer2" /\ txs[2].from = "signer2"
    /\ txs[1].to = "other" /\ txs[2].to = "signer2"

\* C25: the transaction a borrow call submitted carries the call's
\* positionId as the id, the call's amount as the amount, unscaled, and the
\* recipient as the third argument, and is the transaction of that call only;
\* once it has executed alone on its position, the principal has grown by
\* exactly the amount argument.
C25_ArgumentsForwarded ==
    \A h \in 1..Len(txs) :
        LET b == bcall[txs[h].call] IN
        /\ txs[h].id = b.positionId
        /\ txs[h].amount = b.amount
        /\ txs[h].to = Recipient(b.to)
        /\ b.sent[1].fn = "borrow" /\ b.sent[1].arg = b.positionId
        /\ (h \in DOMAIN receipts /\ receipts[h] = "success" /\ ~b.interfered) =>
              credits[b.positionId].principal = b.prePrincipal + b.amount

C25_Witness ==
    \E h \in 1..Len(txs) :
        /\ txs[h].id = 2 /\ txs[h].amount = 1 /\ txs[h].to = "other"
        /\ h \in DOMAIN receipts /\ receipts[h] = "success"
        /\ credits[2].principal = 1 /\ credits[1].principal = 0

\* C26: getOpenPositionIds is all-or-nothing: when its counts read or any
\* one of its ids reads has failed the call has failed and returned no list,
\* and a failed call takes no further step; a call that returned has had
\* every one of its reads answered, its list has one element for each index
\* below the count it read, and each element is the answer to the read of
\* its index, never a placeholder.
C26_AllOrNothing ==
    \A c \in IdsCalls :
        /\ (\E i \in DOMAIN icall[c].sent : icall[c].sent[i].outcome \in {"error", "reverted"}) =>
              /\ icall[c].pc = "failed"
              /\ icall[c].result = <<>>
        /\ icall[c].pc = "failed" =>
              /\ icall[c].result = <<>>
              /\ ~ENABLED IdsReturn(c)
              /\ \A k \in 1..Cardinality(PositionRefs) : ~ENABLED IdsRead(c, k)
        /\ icall[c].pc = "returned" =>
              /\ \A i \in DOMAIN icall[c].sent : icall[c].sent[i].outcome = "ok"
              /\ Len(icall[c].sent) = 1 + icall[c].openPositionCount
              /\ Len(icall[c].result) = icall[c].openPositionCount
              /\ \A k \in 1..Len(icall[c].result) :
                    <<k, icall[c].result[k]>> \in Range(icall[c].completions)

C26_Witness ==
    \E c \in IdsCalls :
        /\ icall[c].pc = "failed"
        /\ icall[c].openPositionCount = 2
        /\ icall[c].result = <<>>
        /\ \E i \in DOMAIN icall[c].sent : \E j \in DOMAIN icall[c].sent :
              /\ icall[c].sent[i].fn = "ids" /\ icall[c].sent[i].outcome = "reverted"
              /\ icall[c].sent[j].fn = "ids" /\ icall[c].sent[j].outcome = "ok"

\* The requests of one call for function fn.
RequestsFor(sent, fn) == {i \in DOMAIN sent : sent[i].fn = fn}

\* C27: a getOpenPositionIds call sends one counts read, first; while that
\* read is unanswered it has sent nothing else; once it is answered with
\* open count n the call has sent exactly one ids read for each index
\* 0..n-1 and no other; the list it returns has length n, also when the
\* remote list has a different length by then.
C27_ReadsIssued ==
    \A c \in IdsCalls :
        /\ icall[c].pc = "idle" => icall[c].sent = <<>>
        /\ icall[c].pc # "idle" =>
              /\ icall[c].sent[1].fn = "counts"
              /\ RequestsFor(icall[c].sent, "counts") = {1}
        /\ (icall[c].pc # "idle" /\ icall[c].sent[1].outcome # "ok") =>
              Len(icall[c].sent) = 1
        /\ (icall[c].pc # "idle" /\ icall[c].sent[1].outcome = "ok") =>
              /\ Len(icall[c].sent) = 1 + icall[c].openPositionCount
              /\ \A i \in 0..(icall[c].openPositionCount - 1) :
                    Cardinality({k \in RequestsFor(icall[c].sent, "ids") :
                                    icall[c].sent[k].arg = i}) = 1
        /\ icall[c].pc = "returned" => Len(icall[c].result) = icall[c].openPositionCount

C27_Witness ==
    \E c \in IdsCalls :
        /\ icall[c].pc = "returned"
        /\ icall[c].listChanged
        /\ Len(icall[c].result) = 2
        /\ Cardinality(RequestsFor(icall[c].sent, "ids")) = 2
        /\ contract_counts(ids)[1] = 1
        /\ icall[c].result # ids

\* The submission step of call c has failed.
SubmissionFailed(c) ==
    /\ bcall[c].sent # <<>>
    /\ bcall[c].sent[1].outcome \in {"error", "reverted"}

\* C28 as stated: a borrow call whose submission step failed has failed, has
\* issued no receipt wait, and no transaction of the call is pending or mined.
\* (A submission whose response is lost after the node accepted the
\* transaction fails to the caller and leaves the transaction in the pool.)
C28_NothingSubmitted ==
    \A c \in BorrowCalls :
        SubmissionFailed(c) =>
            /\ bcall[c].pc = "failed"
            /\ RequestsFor(bcall[c].sent, "waitForTransactionReceipt") = {}
            /\ TxsOf(c) = {}

\* C28, amended: a borrow call whose submission step failed has failed
\* without a hash and has issued no receipt wait; when the failure is a
\* revert detected at submission, no transaction of the call is pending or
\* ever mined; when it is a transport failure, at most one transaction of the
\* call exists (the node accepted it before the failure), and the call does
\* not wait for it.
C28_SubmissionFailure ==
    \A c \in BorrowCalls :
        SubmissionFailed(c) =>
            /\ bcall[c].pc = "failed"
            /\ bcall[c].result = NoHash /\ bcall[c].txnHash = NoHash
            /\ Len(bcall[c].sent) = 1
            /\ RequestsFor(bcall[c].sent, "waitForTransactionReceipt") = {}
            /\ bcall[c].sent[1].outcome = "reverted" =>
                  /\ bcall[c].error \in {"NoLiquidity", "PositionIsClosed"}
                  /\ TxsOf(c) = {}
            /\ bcall[c].sent[1].outcome = "error" =>
                  /\ bcall[c].error = "TransportError"
                  /\ Cardinality(TxsOf(c)) <= 1
                  /\ Cardinality(TxsOf(c)) = bcall[c].submissions

C28_Witness ==
    \E c \in BorrowCalls : \E d \in BorrowCalls :
        /\ SubmissionFailed(c) /\ bcall[c].error = "TransportError"
        /\ \E h \in TxsOf(c) : h \in DOMAIN receipts /\ receipts[h] = "success"
        /\ SubmissionFailed(d) /\ bcall[d].error = "NoLiquidity"
        /\ TxsOf(d) = {}

\* C29: the hash a borrow call returns is the transactionHash of the
\* receipt its wait resolved with and is the hash its own submission
\* returned; it is never the hash of another call's transaction.
\* (The wait resolves with the receipt of the replacement when the call's
\* transaction was replaced, and borrow returns that receipt's hash.)
C29_OwnHash ==
    \A c \in BorrowCalls :
        bcall[c].pc = "returned" =>
            /\ bcall[c].result \in DOMAIN receipts
            /\ bcall[c].result = bcall[c].txnHash
            /\ txs[bcall[c].result].call = c

\* The sum of the amounts of the borrow calls 1..n on position p that have
\* returned a hash.
RECURSIVE SumReturned(_, _)
SumReturned(p, n) ==
    IF n = 0 THEN 0
    ELSE SumReturned(p, n - 1)
         + (IF bcall[n].pc = "returned" /\ bcall[n].positionId = p
            THEN bcall[n].amount ELSE 0)

\* The available liquidity position p started with: its deposit, as every
\* position starts without principal and no other account writes.
InitialAvailable(p) == credits[p].deposit

\* C30: however the borrow calls on one position interleave, the amounts of
\* the calls that returned a hash sum to no more than the position's initial
\* available liquidity; once no call is in flight the principal has grown
\* by exactly that sum; available liquidity is never negative.
\* (A call whose transaction reverted when executed returns a hash: see C1.)
C30_ReturnedWithinLiquidity ==
    \A p \in PositionRefs :
        /\ SumReturned(p, MaxBorrowCalls) <= InitialAvailable(p)
        /\ (pending = {} /\ \A c \in BorrowCalls : bcall[c].pc \in {"idle", "returned", "failed"}) =>
              credits[p].principal = SumReturned(p, MaxBorrowCalls)
        /\ contract_available(credits, p)[1] >= 0

====
